---------------------------- MODULE Spec2Model ----------------------------
(***************************************************************************)
(* A small-step model of parser.py: the Lexer (a character cursor with     *)
(* line/column counters, scanned one loop iteration per step) and the      *)
(* recursive-descent Parser (an explicit call stack of eat / factor /      *)
(* term / expression / parse / evaluate frames, one statement per step).   *)
(*                                                                         *)
(* Characters are one-character strings and a text is a sequence of them.  *)
(* Python floats are modelled as exact rationals n/d in lowest terms       *)
(* (d > 0), booleans as the tagged values 0 and 1: rounding and the sign   *)
(* of zero are not modelled, the order of the operations and the           *)
(* bool/number coercions are.  RecursionError (stack exhaustion on deeply  *)
(* nested input) is outside the bounded inputs.                            *)
(***************************************************************************)
EXTENDS Integers, Sequences, FiniteSets, TLC

VARIABLES
    text,           \* Lexer.text
    pos,            \* Lexer.pos (0-based)
    current_char,   \* Lexer.current_char (None at the end of the text)
    line,           \* Lexer.line
    column,         \* Lexer.column
    lpc,            \* where the scanner is: idle, gnt, ws, num, id
    result,         \* the local `result` of Lexer.number / Lexer._id
    tokStart,       \* history: pos at which the token being scanned began
    callPos,        \* history: pos when get_next_token was last called
    current_token,  \* Parser.current_token
    stack,          \* the Python call stack of evaluate(), innermost last
    ret,            \* the value returned by the call that returned last
    status,         \* running, done (evaluate returned), error (raised)
    err,            \* the exception raised
    pulled,         \* history: tokens the parser received from the scanner
    consumed,       \* history: tokens consumed by a successful eat
    mode,           \* evaluate: evaluate(text); scan: a caller looping on
                    \* Lexer.get_next_token() directly
    client_tok      \* scan mode: the token the last call returned

vars == <<text, pos, current_char, line, column, lpc, result, tokStart, callPos,
          current_token, stack, ret, status, err, pulled, consumed, mode,
          client_tok>>

lexVars == <<pos, current_char, line, column>>
parserVars == <<current_token, stack, ret, pulled, consumed>>

-----------------------------------------------------------------------------
(* Bounds of the explored inputs *)

MaxPieces == 3
MaxOps == 2
MaxChain == 3

-----------------------------------------------------------------------------
(* Python values *)

None == "None"

NoValue == [t |-> "none", n |-> 0, d |-> 1]

Abs(i) == IF i < 0 THEN -i ELSE i

Sign(i) == IF i < 0 THEN -1 ELSE IF i > 0 THEN 1 ELSE 0

RECURSIVE GCD(_, _)
GCD(a, b) == IF b = 0 THEN a ELSE GCD(b, a % b)

\* the float n/d, in lowest terms; d = 0 stands for a division that was
\* carried out with a zero divisor
Ratio(n, d) ==
    IF d = 0 THEN [t |-> "num", n |-> Sign(n), d |-> 0]
    ELSE LET g == GCD(Abs(n), Abs(d))
             s == Sign(d)
         IN  [t |-> "num", n |-> (s * n) \div g, d |-> (s * d) \div g]

PyBool(b) == [t |-> "bool", n |-> IF b THEN 1 ELSE 0, d |-> 1]

\* v == 0 in Python: 0.0, -0.0, 0 and False
IsZero(v) == v.n = 0 /\ v.d # 0

\* bool(v) in place of not v
PyTruthy(v) == PyBool(~IsZero(v))

PyNot(v) == PyBool(IsZero(v))

PyNeg(v) == [t |-> "num", n |-> -v.n, d |-> v.d]

PyMul(a, b) == Ratio(a.n * b.n, a.d * b.d)

\* the operands the wrong way round
PyTrueDivSwapped(a, b) == Ratio(b.n * a.d, b.d * a.n)

PyTrueDiv(a, b) == Ratio(a.n * b.d, a.d * b.n)

\* C fmod: a - b * trunc(a / b), the sign of the dividend
PyFmod(a, b) ==
    LET p == a.n * b.d * Sign(b.n)
        q == a.d * Abs(b.n)
        f == Sign(p) * (Abs(p) \div q)
    IN  Ratio(a.n * b.d - b.n * a.d * f, a.d * b.d)

\* Python's %: a - b * floor(a / b)
PyMod(a, b) ==
    LET p == a.n * b.d * Sign(b.n)
        q == a.d * Abs(b.n)
        f == p \div q
    IN  Ratio(a.n * b.d - b.n * a.d * f, a.d * b.d)

-----------------------------------------------------------------------------
(* Characters *)

Digits == <<"0", "1", "2", "3", "4", "5", "6", "7", "8", "9">>

LowerLetters == <<"a", "b", "c", "d", "e", "f", "g", "h", "i", "j", "k", "l", "m",
                  "n", "o", "p", "q", "r", "s", "t", "u", "v", "w", "x", "y", "z">>

UpperLetters == <<"A", "B", "C", "D", "E", "F", "G", "H", "I", "J", "K", "L", "M",
                  "N", "O", "P", "Q", "R", "S", "T", "U", "V", "W", "X", "Y", "Z">>

Range(s) == {s[i] : i \in DOMAIN s}

IsSpace(c) == c \in {" ", "\n", "\t", "\r"}

IsDigit(c) == c \in Range(Digits)

IsAlpha(c) == c \in Range(LowerLetters) \cup Range(UpperLetters)

IsAlnum(c) == IsAlpha(c) \/ IsDigit(c)

UpperChar(c) ==
    IF c \in Range(LowerLetters)
    THEN UpperLetters[CHOOSE i \in DOMAIN LowerLetters : LowerLetters[i] = c]
    ELSE c

Upper(s) == [i \in DOMAIN s |-> UpperChar(s[i])]

DigitValue(c) == (CHOOSE i \in DOMAIN Digits : Digits[i] = c) - 1

-----------------------------------------------------------------------------
(* Tokens *)

Token(type, value, ln, col) ==
    [type |-> type, value |-> value, line |-> ln, column |-> col]

NoToken == Token("NONE", None, 0, 0)

keywords ==
    { <<<<"I", "F">>, "IF">>, <<<<"T", "H", "E", "N">>, "THEN">>,
      <<<<"E", "L", "S", "E">>, "ELSE">>, <<<<"A", "N", "D">>, "AND">>,
      <<<<"O", "R">>, "OR">>, <<<<"N", "O", "T">>, "NOT">> }

IsKeyword(w) == \E k \in keywords : k[1] = w

KeywordType(w) == (CHOOSE k \in keywords : k[1] = w)[2]

symbols ==
    { <<"+", "PLUS">>, <<"-", "MINUS">>, <<"*", "MULTIPLY">>, <<"/", "DIVIDE">>,
      <<"^", "POWER">>, <<"%", "MODULO">>, <<"(", "LPAREN">>, <<")", "RPAREN">>,
      <<"<", "LESS">>, <<">", "GREATER">> }

IsSymbol(c) == \E s \in symbols : s[1] = c

SymbolType(c) == (CHOOSE s \in symbols : s[1] = c)[2]

-----------------------------------------------------------------------------
(* float(result) for a run of digits and dots that starts with a digit *)

CountDots(s) == Cardinality({i \in DOMAIN s : s[i] = "."})

FloatOk(s) == Len(s) > 0 /\ CountDots(s) <= 1

RECURSIVE DigitsValue(_)
DigitsValue(s) ==
    IF s = <<>> THEN 0
    ELSE 10 * DigitsValue(SubSeq(s, 1, Len(s) - 1)) + DigitValue(s[Len(s)])

RECURSIVE Pow10(_)
Pow10(k) == IF k = 0 THEN 1 ELSE 10 * Pow10(k - 1)

Float(s) ==
    IF CountDots(s) = 0 THEN Ratio(DigitsValue(s), 1)
    ELSE LET dot == CHOOSE i \in DOMAIN s : s[i] = "."
             whole == SubSeq(s, 1, dot - 1)
             frac == SubSeq(s, dot + 1, Len(s))
         IN  Ratio(DigitsValue(whole) * Pow10(Len(frac)) + DigitsValue(frac),
                   Pow10(Len(frac)))

-----------------------------------------------------------------------------
(* The inputs *)

Pieces ==
    { <<"7">>, <<"0">>, <<".">>, <<"-">>, <<"*">>, <<"/">>, <<"%">>, <<"(">>,
      <<")">>, <<"+">>, <<" ">>, <<"\n">>, <<"N", "O", "T">>, <<"a", "b">> }

RECURSIVE Flatten(_)
Flatten(ps) == IF ps = <<>> THEN <<>> ELSE Head(ps) \o Flatten(Tail(ps))

SeqsUpTo(S, n) == UNION {[1..k -> S] : k \in 0..n}

\* any concatenation of at most MaxPieces lexemes, well formed or not
GeneralTexts == {Flatten(ps) : ps \in SeqsUpTo(Pieces, MaxPieces)}

TermFactors == { <<"7">>, <<"2">>, <<"-", "7">>, <<"-", "2">> }

TermOps == { <<"*">>, <<"/">>, <<"%">> }

\* f0 op1 f1 ... opn fn with n <= MaxOps
TermTexts ==
    {Flatten(<<f>> \o ps) :
        f \in TermFactors,
        ps \in SeqsUpTo({o \o g : o \in TermOps, g \in TermFactors}, MaxOps)}

ChainOps == { <<"-">>, <<"N", "O", "T", " ">>, <<"n", "o", "t", " ">> }

ChainLiterals == { <<"7">>, <<"0">>, <<"(", "7", ")">>, <<"(", "0", ")">>,
                   <<"2", ".", "5">> }

\* a chain of at most MaxChain unary operators applied to a literal
ChainTexts ==
    {Flatten(ps) \o l : ps \in SeqsUpTo(ChainOps, MaxChain), l \in ChainLiterals}

\* a term whose right operand is zero, or a literal float() rejects
FaultOperands == { <<"0">>, <<"-", "0">>, <<"0", ".", "0">>, <<"7", ".", ".">> }

FaultTexts == {f \o o \o z : f \in TermFactors, o \in TermOps, z \in FaultOperands}

Texts == GeneralTexts \cup TermTexts \cup ChainTexts \cup FaultTexts

\* the texts with one lexeme, one operator less
ShortTexts ==
    {Flatten(ps) : ps \in SeqsUpTo(Pieces, MaxPieces - 1)}
    \cup {Flatten(<<f>> \o ps) :
             f \in TermFactors,
             ps \in SeqsUpTo({o \o g : o \in TermOps, g \in TermFactors}, MaxOps - 1)}
    \cup ChainTexts \cup FaultTexts

-----------------------------------------------------------------------------
(* Lexer *)

CharAt(t, p) == IF p < Len(t) THEN t[p + 1] ELSE None

\* Lexer.advance
NextLine(c, ln) == IF c = "\n" THEN ln + 1 ELSE ln

NextColumn(c, col) == (IF c = "\n" THEN 0 ELSE col) + 1

\* the cursor moved two characters
NextPosSkip(p) == p + 2

NextPos(p) == p + 1

advance ==
    /\ line' = NextLine(current_char, line)
    /\ column' = NextColumn(current_char, column)
    /\ pos' = NextPos(pos)
    /\ current_char' = CharAt(text, NextPos(pos))

Frame(fn, pc) ==
    [fn |-> fn, pc |-> pc, token |-> NoToken, result |-> NoValue, token_type |-> "NONE"]

Top == stack[Len(stack)]

Pop == SubSeq(stack, 1, Len(stack) - 1)

SetTop(f) == [stack EXCEPT ![Len(stack)] = f]

NoErr == [kind |-> "none", char |-> None, line |-> 0, column |-> 0,
          expected |-> "NONE", got |-> "NONE"]

\* raise Exception(...): the call stack is kept as it was at the raise
Raise(kind, c, ln, col, expected, got) ==
    /\ status' = "error"
    /\ err' = [kind |-> kind, char |-> c, line |-> ln, column |-> col,
               expected |-> expected, got |-> got]

\* Lexer.error
LexerError == Raise("UnexpectedCharacter", current_char, line, column, "NONE", "NONE")

\* get_next_token returns tok to its caller: Parser.__init__ or Parser.eat
\* (self.current_token = self.lexer.get_next_token()), or the direct caller
Return(tok) ==
    /\ lpc' = "idle"
    /\ IF mode = "scan"
       THEN /\ client_tok' = tok
            /\ UNCHANGED parserVars
       ELSE /\ current_token' = tok
            /\ pulled' = pulled + 1
            /\ stack' = IF Top.fn = "eat" THEN Pop
                        ELSE SetTop([Top EXCEPT !.pc = "parse"])
            /\ UNCHANGED <<ret, consumed, client_tok>>

Scanning(l) == status = "running" /\ lpc = l

GntEOF ==
    /\ Scanning("gnt")
    /\ current_char = None
    /\ tokStart' = pos
    /\ Return(Token("EOF", None, line, column))
    /\ UNCHANGED <<text, lexVars, result, callPos, status, err, mode>>

GntSpace ==
    /\ Scanning("gnt")
    /\ current_char # None /\ IsSpace(current_char)
    /\ lpc' = "ws"
    /\ UNCHANGED <<text, lexVars, result, tokStart, callPos, parserVars, status, err,
                   mode, client_tok>>

SkipAdvance ==
    /\ Scanning("ws")
    /\ current_char # None /\ IsSpace(current_char)
    /\ advance
    /\ UNCHANGED <<text, lpc, result, tokStart, callPos, parserVars, status, err, mode,
                   client_tok>>

SkipReturn ==
    /\ Scanning("ws")
    /\ ~(current_char # None /\ IsSpace(current_char))
    /\ lpc' = "gnt"
    /\ UNCHANGED <<text, lexVars, result, tokStart, callPos, parserVars, status, err,
                   mode, client_tok>>

GntDigit ==
    /\ Scanning("gnt")
    /\ current_char # None /\ ~IsSpace(current_char) /\ IsDigit(current_char)
    /\ lpc' = "num"
    /\ result' = <<>>
    /\ tokStart' = pos
    /\ UNCHANGED <<text, lexVars, callPos, parserVars, status, err, mode, client_tok>>

InNumber(c) == c # None /\ (IsDigit(c) \/ c = ".")

NumberStep ==
    /\ Scanning("num")
    /\ InNumber(current_char)
    /\ result' = Append(result, current_char)
    /\ advance
    /\ UNCHANGED <<text, lpc, tokStart, callPos, parserVars, status, err, mode,
                   client_tok>>

\* the column of the cursor, not of the first digit
NumberColumnAtCursor(col, s) == col

NumberColumn(col, s) == col - Len(s)

NumberReturn ==
    /\ Scanning("num")
    /\ ~InNumber(current_char)
    /\ FloatOk(result)
    /\ Return(Token("NUMBER", Float(result), line, NumberColumn(column, result)))
    /\ UNCHANGED <<text, lexVars, result, tokStart, callPos, status, err, mode>>

\* float(result) raises ValueError
NumberValueError ==
    /\ Scanning("num")
    /\ ~InNumber(current_char)
    /\ ~FloatOk(result)
    /\ Raise("ValueError", None, 0, 0, "NONE", "NONE")
    /\ UNCHANGED <<text, lexVars, lpc, result, tokStart, callPos, parserVars, mode,
                   client_tok>>

GntAlpha ==
    /\ Scanning("gnt")
    /\ current_char # None /\ ~IsSpace(current_char) /\ ~IsDigit(current_char)
    /\ IsAlpha(current_char)
    /\ lpc' = "id"
    /\ result' = <<>>
    /\ tokStart' = pos
    /\ UNCHANGED <<text, lexVars, callPos, parserVars, status, err, mode, client_tok>>

InWord(c) == c # None /\ IsAlnum(c)

IdStep ==
    /\ Scanning("id")
    /\ InWord(current_char)
    /\ result' = Append(result, current_char)
    /\ advance
    /\ UNCHANGED <<text, lpc, tokStart, callPos, parserVars, status, err, mode,
                   client_tok>>

IdKeyword ==
    /\ Scanning("id")
    /\ ~InWord(current_char)
    /\ IsKeyword(Upper(result))
    /\ Return(Token(KeywordType(Upper(result)), Upper(result), line,
                    column - Len(result)))
    /\ UNCHANGED <<text, lexVars, result, tokStart, callPos, status, err, mode>>

IdError ==
    /\ Scanning("id")
    /\ ~InWord(current_char)
    /\ ~IsKeyword(Upper(result))
    /\ LexerError
    /\ UNCHANGED <<text, lexVars, lpc, result, tokStart, callPos, parserVars, mode,
                   client_tok>>

GntSymbol ==
    /\ Scanning("gnt")
    /\ current_char # None /\ ~IsSpace(current_char) /\ ~IsDigit(current_char)
    /\ ~IsAlpha(current_char)
    /\ IsSymbol(current_char)
    /\ advance
    /\ tokStart' = pos
    /\ Return(Token(SymbolType(current_char), current_char, line', column' - 1))
    /\ UNCHANGED <<text, result, callPos, status, err, mode>>

GntError ==
    /\ Scanning("gnt")
    /\ current_char # None /\ ~IsSpace(current_char) /\ ~IsDigit(current_char)
    /\ ~IsAlpha(current_char)
    /\ ~IsSymbol(current_char)
    /\ LexerError
    /\ UNCHANGED <<text, lexVars, lpc, result, tokStart, callPos, parserVars, mode,
                   client_tok>>

\* a direct caller of the Lexer calls get_next_token() again
ClientCall ==
    /\ mode = "scan"
    /\ Scanning("idle")
    /\ lpc' = "gnt"
    /\ callPos' = pos
    /\ UNCHANGED <<text, lexVars, result, tokStart, parserVars, status, err, mode,
                   client_tok>>

LexerNext ==
    \/ GntEOF \/ GntSpace \/ SkipAdvance \/ SkipReturn
    \/ GntDigit \/ NumberStep \/ NumberReturn \/ NumberValueError
    \/ GntAlpha \/ IdStep \/ IdKeyword \/ IdError
    \/ GntSymbol \/ GntError

-----------------------------------------------------------------------------
(* Parser *)

\* the parser is at frame fn, statement pc, and no scanner call is under way
At(fn, pc) ==
    /\ mode = "evaluate"
    /\ status = "running"
    /\ lpc = "idle"
    /\ stack # <<>>
    /\ Top.fn = fn
    /\ Top.pc = pc

\* the caller moves to statement pc and calls fn
Call(pc, callee) == Append(SetTop([Top EXCEPT !.pc = pc]), callee)

EatFrame(token_type) == [Frame("eat", "check") EXCEPT !.token_type = token_type]

lexerUnchanged == UNCHANGED <<text, lexVars, lpc, result, tokStart, callPos, client_tok>>

\* a step that only moves control: nothing but the stack changes
Control == /\ lexerUnchanged
           /\ UNCHANGED <<current_token, ret, status, err, pulled, consumed, mode>>

\* evaluate: parser = Parser(lexer); Parser.__init__ pulls the first token
EvaluateInit ==
    /\ At("evaluate", "init")
    /\ stack' = SetTop([Top EXCEPT !.pc = "init_wait"])
    /\ lpc' = "gnt"
    /\ callPos' = pos
    /\ UNCHANGED <<text, lexVars, result, tokStart, current_token, ret, status, err,
                   pulled, consumed, mode, client_tok>>

\* evaluate: return parser.parse()
EvaluateParse ==
    /\ At("evaluate", "parse")
    /\ stack' = Call("ret", Frame("parse", "call"))
    /\ Control

\* an evaluate that rejects unconsumed input
EvaluateReturnChecked ==
    /\ At("evaluate", "ret")
    /\ IF current_token.type = "EOF"
       THEN /\ status' = "done"
            /\ stack' = <<>>
            /\ err' = err
       ELSE /\ Raise("UnexpectedToken", None, 0, 0, "EOF", current_token.type)
            /\ stack' = stack
    /\ lexerUnchanged
    /\ UNCHANGED <<current_token, ret, pulled, consumed, mode>>

EvaluateReturn ==
    /\ At("evaluate", "ret")
    /\ status' = "done"
    /\ stack' = <<>>
    /\ lexerUnchanged
    /\ UNCHANGED <<current_token, ret, err, pulled, consumed, mode>>

\* parse: return self.expression()
ParseCall ==
    /\ At("parse", "call")
    /\ stack' = Call("ret", Frame("expression", "call"))
    /\ Control

ParseReturn ==
    /\ At("parse", "ret")
    /\ stack' = Pop
    /\ Control

\* expression: return self.term()
ExpressionCall ==
    /\ At("expression", "call")
    /\ stack' = Call("ret", Frame("term", "start"))
    /\ Control

ExpressionReturn ==
    /\ At("expression", "ret")
    /\ stack' = Pop
    /\ Control

EatMatches(tok, token_type) == tok.type = token_type

\* an eat that returns without fetching the next token
EatMatchStale ==
    /\ At("eat", "check")
    /\ EatMatches(current_token, Top.token_type)
    /\ consumed' = consumed + 1
    /\ stack' = Pop
    /\ lexerUnchanged
    /\ UNCHANGED <<current_token, ret, status, err, pulled, mode>>

\* eat: the token matches; self.current_token = self.lexer.get_next_token()
EatMatch ==
    /\ At("eat", "check")
    /\ EatMatches(current_token, Top.token_type)
    /\ consumed' = consumed + 1
    /\ stack' = SetTop([Top EXCEPT !.pc = "pull"])
    /\ lpc' = "gnt"
    /\ callPos' = pos
    /\ UNCHANGED <<text, lexVars, result, tokStart, current_token, ret, status, err,
                   pulled, mode, client_tok>>

EatMismatch ==
    /\ At("eat", "check")
    /\ ~EatMatches(current_token, Top.token_type)
    /\ Raise("UnexpectedToken", None, 0, 0, Top.token_type, current_token.type)
    /\ lexerUnchanged
    /\ UNCHANGED <<current_token, stack, ret, pulled, consumed, mode>>

\* factor: token = self.current_token; NUMBER: self.eat(NUMBER)
FactorNumber ==
    /\ At("factor", "start")
    /\ current_token.type = "NUMBER"
    /\ stack' = Append(SetTop([Top EXCEPT !.pc = "number_ret", !.token = current_token]),
                       EatFrame("NUMBER"))
    /\ Control

\* return token.value
FactorNumberReturn ==
    /\ At("factor", "number_ret")
    /\ ret' = Top.token.value
    /\ stack' = Pop
    /\ lexerUnchanged
    /\ UNCHANGED <<current_token, status, err, pulled, consumed, mode>>

\* LPAREN: self.eat(LPAREN)
FactorParen ==
    /\ At("factor", "start")
    /\ current_token.type = "LPAREN"
    /\ stack' = Append(SetTop([Top EXCEPT !.pc = "paren_expr", !.token = current_token]),
                       EatFrame("LPAREN"))
    /\ Control

\* result = self.expression()
FactorParenExpr ==
    /\ At("factor", "paren_expr")
    /\ stack' = Call("paren_close", Frame("expression", "call"))
    /\ Control

\* self.eat(RPAREN)
FactorParenClose ==
    /\ At("factor", "paren_close")
    /\ stack' = Append(SetTop([Top EXCEPT !.pc = "paren_ret", !.result = ret]),
                       EatFrame("RPAREN"))
    /\ Control

\* return result
FactorParenReturn ==
    /\ At("factor", "paren_ret")
    /\ ret' = Top.result
    /\ stack' = Pop
    /\ lexerUnchanged
    /\ UNCHANGED <<current_token, status, err, pulled, consumed, mode>>

\* NOT: self.eat(NOT)
FactorNot ==
    /\ At("factor", "start")
    /\ current_token.type = "NOT"
    /\ stack' = Append(SetTop([Top EXCEPT !.pc = "not_operand", !.token = current_token]),
                       EatFrame("NOT"))
    /\ Control

FactorNotOperand ==
    /\ At("factor", "not_operand")
    /\ stack' = Call("not_ret", Frame("factor", "start"))
    /\ Control

\* return not self.factor()
FactorNotReturn ==
    /\ At("factor", "not_ret")
    /\ ret' = PyNot(ret)
    /\ stack' = Pop
    /\ lexerUnchanged
    /\ UNCHANGED <<current_token, status, err, pulled, consumed, mode>>

\* MINUS: self.eat(MINUS)
FactorMinus ==
    /\ At("factor", "start")
    /\ current_token.type = "MINUS"
    /\ stack' = Append(SetTop([Top EXCEPT !.pc = "minus_operand", !.token = current_token]),
                       EatFrame("MINUS"))
    /\ Control

FactorMinusOperand ==
    /\ At("factor", "minus_operand")
    /\ stack' = Call("minus_ret", Frame("factor", "start"))
    /\ Control

\* return -self.factor()
FactorMinusReturn ==
    /\ At("factor", "minus_ret")
    /\ ret' = PyNeg(ret)
    /\ stack' = Pop
    /\ lexerUnchanged
    /\ UNCHANGED <<current_token, status, err, pulled, consumed, mode>>

FactorStarts == {"NUMBER", "LPAREN", "NOT", "MINUS"}

\* raise Exception('Invalid factor')
FactorInvalid ==
    /\ At("factor", "start")
    /\ current_token.type \notin FactorStarts
    /\ Raise("InvalidFactor", None, 0, 0, "NONE", current_token.type)
    /\ lexerUnchanged
    /\ UNCHANGED <<current_token, stack, ret, pulled, consumed, mode>>

TermOperators == {"MULTIPLY", "DIVIDE", "MODULO"}

\* term: result = self.factor()
TermFirst ==
    /\ At("term", "start")
    /\ stack' = Call("first", Frame("factor", "start"))
    /\ Control

TermResult ==
    /\ At("term", "first")
    /\ stack' = SetTop([Top EXCEPT !.pc = "loop", !.result = ret])
    /\ Control

\* while the current token is an operator: token = self.current_token; self.eat(its type)
TermLoop ==
    /\ At("term", "loop")
    /\ current_token.type \in TermOperators
    /\ stack' = Append(SetTop([Top EXCEPT !.pc = "rhs", !.token = current_token]),
                       EatFrame(current_token.type))
    /\ Control

\* the right operand: self.factor()
TermRhs ==
    /\ At("term", "rhs")
    /\ stack' = Call("apply", Frame("factor", "start"))
    /\ Control

\* what the loop body does with the operand the factor returned
Applied(r) ==
    /\ stack' = SetTop([Top EXCEPT !.pc = "loop", !.result = r])
    /\ Control

\* result *= self.factor()
TermMultiply ==
    /\ At("term", "apply")
    /\ Top.token.type = "MULTIPLY"
    /\ Applied(PyMul(Top.result, ret))

\* no zero test
DivisorNeverZero(divisor) == FALSE

\* if divisor == 0
DivisorIsZero(divisor) == IsZero(divisor)

\* result /= divisor
TermDivide ==
    /\ At("term", "apply")
    /\ Top.token.type = "DIVIDE"
    /\ ~DivisorIsZero(ret)
    /\ Applied(PyTrueDiv(Top.result, ret))

\* raise Exception('Division by zero')
TermDivisionByZero ==
    /\ At("term", "apply")
    /\ Top.token.type = "DIVIDE"
    /\ DivisorIsZero(ret)
    /\ Raise("DivisionByZero", None, 0, 0, "NONE", "NONE")
    /\ lexerUnchanged
    /\ UNCHANGED <<current_token, stack, ret, pulled, consumed, mode>>

\* result %= self.factor()
TermModulo ==
    /\ At("term", "apply")
    /\ Top.token.type = "MODULO"
    /\ ~IsZero(ret)
    /\ Applied(PyMod(Top.result, ret))

\* result %= self.factor() with a zero operand: Python raises ZeroDivisionError
TermModuloByZero ==
    /\ At("term", "apply")
    /\ Top.token.type = "MODULO"
    /\ IsZero(ret)
    /\ Raise("ZeroDivisionError", None, 0, 0, "NONE", "NONE")
    /\ lexerUnchanged
    /\ UNCHANGED <<current_token, stack, ret, pulled, consumed, mode>>

\* return result
TermReturn ==
    /\ At("term", "loop")
    /\ current_token.type \notin TermOperators
    /\ ret' = Top.result
    /\ stack' = Pop
    /\ lexerUnchanged
    /\ UNCHANGED <<current_token, status, err, pulled, consumed, mode>>

ParserNext ==
    \/ EvaluateInit \/ EvaluateParse \/ EvaluateReturn
    \/ ParseCall \/ ParseReturn \/ ExpressionCall \/ ExpressionReturn
    \/ EatMatch \/ EatMismatch
    \/ FactorNumber \/ FactorNumberReturn
    \/ FactorParen \/ FactorParenExpr \/ FactorParenClose \/ FactorParenReturn
    \/ FactorNot \/ FactorNotOperand \/ FactorNotReturn
    \/ FactorMinus \/ FactorMinusOperand \/ FactorMinusReturn
    \/ FactorInvalid
    \/ TermFirst \/ TermResult \/ TermLoop \/ TermRhs
    \/ TermMultiply \/ TermDivide \/ TermDivisionByZero
    \/ TermModulo \/ TermModuloByZero \/ TermReturn

-----------------------------------------------------------------------------

\* Lexer(text) is constructed for a text of T; the caller named by m is
\* about to run
Start(m, T) ==
    /\ text \in T
    /\ mode = m
    /\ pos = 0
    /\ current_char = CharAt(text, 0)
    /\ line = 1
    /\ column = 1
    /\ lpc = "idle"
    /\ result = <<>>
    /\ tokStart = 0
    /\ callPos = 0
    /\ current_token = NoToken
    /\ stack = IF m = "evaluate" THEN <<Frame("evaluate", "init")>> ELSE <<>>
    /\ ret = NoValue
    /\ status = "running"
    /\ err = NoErr
    /\ pulled = 0
    /\ consumed = 0
    /\ client_tok = NoToken

\* evaluate(text)
Init == Start("evaluate", Texts)

Next == LexerNext \/ ParserNext

Spec == Init /\ [][Next]_vars

\* evaluate(text), or a caller that keeps calling Lexer(text).get_next_token()
ScanInit == \E m \in {"evaluate", "scan"} : Start(m, Texts)

ScanNext == Next \/ ClientCall

ScanSpec == ScanInit /\ [][ScanNext]_vars

\* the same two callers on the shorter texts
FairInit == \E m \in {"evaluate", "scan"} : Start(m, ShortTexts)

\* the program is sequential: a step that can be taken is taken
FairSpec == FairInit /\ [][ScanNext]_vars /\ WF_vars(ScanNext)

-----------------------------------------------------------------------------
(* What the input says, read off the text itself (1-based indices) *)

\* the line and the column of the character at index i, counted from the text
RefLine(i) == 1 + Cardinality({j \in 1..(i - 1) : text[j] = "\n"})

RefColumn(i) ==
    LET nl == {j \in 1..(i - 1) : text[j] = "\n"}
    IN  i - (IF nl = {} THEN 0 ELSE CHOOSE j \in nl : \A k \in nl : k <= j)

\* the last index of the longest run, starting at i, of characters in P
RunEnd(i, P(_)) ==
    CHOOSE e \in (i - 1)..Len(text) :
        /\ \A j \in i..e : P(text[j])
        /\ e = Len(text) \/ ~P(text[e + 1])

LiteralChar(c) == IsDigit(c) \/ c = "."

\* the first index from i on that holds no white space (Len(text) + 1: none)
SkipSpaces(i) == RunEnd(i, IsSpace) + 1

RefFail == [ok |-> FALSE, b |-> FALSE, n |-> 0, d |-> 1, next |-> 0, ntok |-> 0]

\* the literal that starts at index i, as the fraction n/d
RefLiteral(i) ==
    LET e == RunEnd(i, LiteralChar)
        s == SubSeq(text, i, e)
    IN  IF IsDigit(text[i]) /\ CountDots(s) <= 1
        THEN [ok |-> TRUE, b |-> FALSE, n |-> Float(s).n, d |-> Float(s).d,
              next |-> e + 1, ntok |-> 1]
        ELSE RefFail

\* a factor written without white space: '-'* literal
RECURSIVE RefFactor(_)
RefFactor(i) ==
    IF i > Len(text) THEN RefFail
    ELSE IF text[i] = "-"
    THEN LET f == RefFactor(i + 1)
         IN  IF f.ok THEN [f EXCEPT !.n = -f.n, !.ntok = f.ntok + 1] ELSE RefFail
    ELSE RefLiteral(i)

RefOperators == {"*", "/", "%"}

\* a op f on fractions (d > 0, not reduced); f is not zero for / and %
RefApply(op, a, f) ==
    IF op = "*" THEN [a EXCEPT !.n = a.n * f.n, !.d = a.d * f.d]
    ELSE IF op = "/"
    THEN [a EXCEPT !.n = a.n * f.d * Sign(f.n), !.d = a.d * Abs(f.n)]
    ELSE LET q == (a.n * f.d * Sign(f.n)) \div (a.d * Abs(f.n))
         IN  [a EXCEPT !.n = a.n * f.d - f.n * a.d * q, !.d = a.d * f.d]

\* (((f0 op1 f1) op2 f2) ... opn fn): acc is the value so far, i the next index
RECURSIVE RefTermLoop(_, _)
RefTermLoop(acc, i) ==
    IF i <= Len(text) /\ text[i] \in RefOperators
    THEN LET f == RefFactor(i + 1)
         IN  IF ~f.ok \/ (text[i] # "*" /\ f.n = 0) THEN RefFail
             ELSE RefTermLoop([RefApply(text[i], acc, f) EXCEPT
                                   !.next = f.next, !.ntok = acc.ntok + 1 + f.ntok],
                              f.next)
    ELSE acc

\* the complete term the text starts with, its value, where it ends and how
\* many tokens it has
RefTerm == LET f == RefFactor(1) IN IF f.ok THEN RefTermLoop(f, f.next) ELSE RefFail

SameNumber(v, r) == v.d # 0 /\ v.n * r.d = r.n * v.d

\* the text after the term does not go on with '*', '/' or '%'
SuffixStops ==
    LET k == SkipSpaces(RefTerm.next)
    IN  k > Len(text) \/ text[k] \notin RefOperators

\* the text after the term is empty, or its first token is one the scanner
\* accepts: a symbol, a keyword, a literal with at most one '.'
SuffixFirstTokenScans ==
    LET k == SkipSpaces(RefTerm.next)
    IN  \/ k > Len(text)
        \/ IsSymbol(text[k])
        \/ /\ IsAlpha(text[k])
           /\ IsKeyword(Upper(SubSeq(text, k, RunEnd(k, IsAlnum))))
        \/ /\ IsDigit(text[k])
           /\ CountDots(SubSeq(text, k, RunEnd(k, LiteralChar))) <= 1

\* a chain of unary '-' and NOT applied to a bare or parenthesized literal that
\* ends the text, the operator nearest the literal applied first
RECURSIVE RefChain(_)
RefChain(i) ==
    IF i > Len(text) THEN RefFail
    ELSE IF text[i] = "-"
    THEN LET r == RefChain(i + 1) IN [r EXCEPT !.b = FALSE, !.n = -r.n]
    ELSE IF i + 3 <= Len(text) /\ Upper(SubSeq(text, i, i + 2)) = <<"N", "O", "T">>
            /\ text[i + 3] \in {" ", "(", "-"}
    THEN LET r == RefChain(IF text[i + 3] = " " THEN i + 4 ELSE i + 3)
         IN  [r EXCEPT !.b = TRUE, !.n = IF r.n = 0 THEN 1 ELSE 0, !.d = 1]
    ELSE IF text[i] = "(" /\ i + 2 <= Len(text) /\ text[Len(text)] = ")"
            /\ RunEnd(i + 1, LiteralChar) = Len(text) - 1
    THEN RefLiteral(i + 1)
    ELSE IF IsDigit(text[i]) /\ RunEnd(i, LiteralChar) = Len(text)
    THEN RefLiteral(i)
    ELSE RefFail

Finished == status \in {"done", "error"}

\* the token the scanner returned last
Returned == IF mode = "scan" THEN client_tok ELSE current_token

-----------------------------------------------------------------------------
(* The claims *)

TaxonomyKinds == {"UnexpectedCharacter", "UnexpectedToken", "InvalidFactor",
                  "DivisionByZero"}

\* C1: every failure of evaluate is one of the four kinds UnexpectedCharacter,
\* UnexpectedToken, InvalidFactor, DivisionByZero.  (Fails: float() of a
\* literal with two dots raises ValueError, % with a zero right operand raises
\* ZeroDivisionError.)
C1_OnlyTaxonomyErrors == status = "error" => err.kind \in TaxonomyKinds

\* C2, as claimed: a complete term of value v followed by any text that does
\* not continue it makes evaluate return v and never fail.  (Fails: the
\* look-ahead token after the term is scanned, and scanning it can fail.)
C2_TrailingNeverReported ==
    (Finished /\ RefTerm.ok /\ SuffixStops) =>
        /\ status = "done"
        /\ SameNumber(ret, RefTerm)

\* C2, amended: a complete term of value v followed by text that does not
\* continue it makes evaluate return v without failing when the first token
\* of that text (the look-ahead) scans, whatever follows it; when the scanner
\* rejects that first token, evaluate does not return.
C2_TrailingAfterLookahead ==
    (Finished /\ RefTerm.ok /\ SuffixStops) =>
        IF SuffixFirstTokenScans
        THEN /\ status = "done"
             /\ SameNumber(ret, RefTerm)
        ELSE /\ status = "error"
             /\ err.kind \in {"UnexpectedCharacter", "ValueError"}

\* evaluate returned the term's value with a rejected word or character left
\* in the unconsumed text
C2_Witness ==
    /\ status = "done"
    /\ RefTerm.ok /\ SuffixStops /\ SuffixFirstTokenScans
    /\ SameNumber(ret, RefTerm)
    /\ \E i \in RefTerm.next..Len(text) : text[i] \in {"a", "."}

DivideApply == At("term", "apply") /\ Top.token.type = "DIVIDE"

NoZeroDivision ==
    /\ ret.d # 0
    /\ \A i \in DOMAIN stack : stack[i].result.d # 0

\* C3: at a DIVIDE the right-hand factor has returned before the zero test; a
\* right operand equal to zero makes the next step raise DivisionByZero with
\* nothing computed, no division by zero is ever carried out, and
\* DivisionByZero is raised by nothing but that test (a failure inside the
\* right-hand factor is raised as it is, from the frame that failed).
C3_DivisionByZero ==
    [][/\ (DivideApply /\ IsZero(ret)) =>
            /\ status' = "error" /\ err'.kind = "DivisionByZero"
            /\ stack' = stack /\ ret' = ret
       /\ (status' = "error" /\ status = "running" /\ err'.kind = "DivisionByZero") =>
            DivideApply /\ IsZero(ret)
       /\ (status' = "error" /\ status = "running" /\ ~DivideApply) =>
            /\ err'.kind # "DivisionByZero"
            /\ stack' = stack
       /\ NoZeroDivision']_vars

\* DivisionByZero was raised by term with a right operand that had returned zero
C3_Witness ==
    /\ status = "error" /\ err.kind = "DivisionByZero"
    /\ Top.fn = "term" /\ Top.pc = "apply" /\ IsZero(ret)
    /\ Top.result.n # 0

ModuloStep ==
    /\ At("term", "apply") /\ Top.token.type = "MODULO" /\ ~IsZero(ret)
    /\ status' = "running" /\ stack' # stack

ModuloResult == stack'[Len(stack')].result

\* C4, as claimed: a % b is zero or has the sign of the dividend a.  (Fails:
\* Python's % is the floored remainder.)
C4_SignOfDividend ==
    [][ModuloStep =>
          \/ ModuloResult.n = 0
          \/ Sign(ModuloResult.n) = Sign(Top.result.n)]_vars

\* C4, amended: for a non-zero right operand b, a % b is r = a - b * q for
\* an integer q, with r zero or of the sign of the divisor b, and |r| < |b|.
C4_SignOfDivisor ==
    [][ModuloStep =>
          LET a == Top.result
              b == ret
              r == ModuloResult
          IN  /\ r.d > 0
              /\ r.n = 0 \/ Sign(r.n) = Sign(b.n)
              /\ Abs(r.n) * b.d < Abs(b.n) * r.d
              \* (a - r) / b is an integer
              /\ ((a.n * r.d - r.n * a.d) * b.d) % (a.d * r.d * Abs(b.n)) = 0]_vars

\* -7 % 2 was evaluated, and gave 1
C4_Witness ==
    /\ text = <<"-", "7", "%", "2">>
    /\ status = "done"
    /\ ret.n = 1 /\ ret.d = 1

\* the index just past the current token
TokenEnd ==
    IF current_token.type = "EOF" THEN Len(text)
    ELSE IF IsSymbol(text[tokStart + 1]) THEN tokStart + 1
    ELSE tokStart + Len(result)

LookAheadOne ==
    /\ current_token # NoToken
    /\ pulled = consumed + 1
    /\ tokStart <= Len(text)
    /\ pos = TokenEnd

\* C5: once the Parser is constructed, whenever no scanner call is under way
\* (so after every return of eat, factor, term, expression, parse) exactly one
\* more token has been pulled than eat consumed and the cursor is just past
\* the current token; a token is pulled only by the constructor and by an eat
\* whose token matched.
C5_LookAhead ==
    [][/\ (mode' = "evaluate" /\ lpc' = "idle" /\ status' # "error" /\ pulled' > 0)
            => LookAheadOne'
       /\ (lpc = "idle" /\ lpc' # "idle") =>
            \/ At("evaluate", "init")
            \/ At("eat", "check") /\ current_token.type = Top.token_type
                 /\ consumed' = consumed + 1
       /\ pulled' # pulled =>
            /\ pulled' = pulled + 1
            /\ Top.fn = "eat" \/ Top.fn = "evaluate"]_vars

\* evaluate returned after eat consumed two tokens, a third one being current
C5_Witness ==
    /\ status = "done"
    /\ consumed = 2
    /\ pulled = 3
    /\ current_token.type = "PLUS"
    /\ pos = TokenEnd

\* C6: a scanner failure names the offending character and its line and
\* column: the character is the one at that place of the text, and it is the
\* character that was rejected (for a word, one of its characters).  (Fails
\* for a rejected word: the character after the word, or None, is reported.)
C6_ScannerErrorLocatesOffender ==
    (status = "error" /\ err.kind = "UnexpectedCharacter") =>
        \E i \in 1..Len(text) :
            /\ RefLine(i) = err.line
            /\ RefColumn(i) = err.column
            /\ text[i] = err.char
            /\ IF lpc = "id"
               THEN i \in (tokStart + 1)..(tokStart + Len(result))
               ELSE i = pos + 1

\* the character a token of this type and value starts with
StartsWith(tok, c) ==
    IF tok.type = "NUMBER" THEN IsDigit(c)
    ELSE IF IsSymbol(c) THEN SymbolType(c) = tok.type /\ tok.value = c
    ELSE IsAlpha(c) /\ UpperChar(c) = tok.value[1]

\* C7: a returned token carries the line and the column of its first
\* character (the first character after the call that is not white space),
\* lines counted by the newlines before it and columns from 1 after the last
\* of them; the end-of-input token carries the position of the end of the text.
C7_TokenPosition ==
    (lpc \in {"idle", "gnt", "ws"} /\ Returned # NoToken) =>
        /\ Returned.line = RefLine(tokStart + 1)
        /\ Returned.column = RefColumn(tokStart + 1)
        /\ lpc = "idle" =>
              /\ callPos <= tokStart
              /\ \A j \in (callPos + 1)..tokStart : IsSpace(text[j])
        /\ IF Returned.type = "EOF" THEN tokStart = Len(text)
           ELSE tokStart < Len(text) /\ StartsWith(Returned, text[tokStart + 1])

\* a number and a keyword were returned from the second line, past column 1
C7_Witness ==
    /\ lpc = "idle"
    /\ current_token.type \in {"NUMBER", "NOT"}
    /\ current_token.line = 2
    /\ current_token.column = 2

\* C8: a chain of unary '-' and NOT applied to a bare or parenthesized
\* literal evaluates, without failing, to the literal with the operators
\* applied from the one nearest the literal outwards: '-' negates, NOT gives
\* true for zero and false for anything else.
C8_UnaryChain ==
    (Finished /\ RefChain(1).ok) =>
        /\ status = "done"
        /\ SameNumber(ret, RefChain(1))
        /\ (ret.t = "bool") = RefChain(1).b

\* - NOT 0 and the like: a chain with both operators returned a non-zero value
C8_Witness ==
    /\ status = "done"
    /\ RefChain(1).ok
    /\ consumed >= 3
    /\ \E i \in 1..Len(text) : text[i] = "-"
    /\ \E i \in 1..Len(text) : text[i] \in {"N", "n"}
    /\ ret.n # 0

\* C9: for f0 op1 f1 ... opn fn that raises no error, the value returned is
\* (((f0 op1 f1) op2 f2) ... opn fn), and the loop stops at the first token
\* that is none of '*', '/', '%' without consuming it: exactly the tokens of
\* the term are consumed and that token is the current one.
C9_LeftAssociative ==
    (status = "done" /\ RefTerm.ok /\ SuffixStops) =>
        /\ SameNumber(ret, RefTerm)
        /\ consumed = RefTerm.ntok
        /\ current_token.type \notin TermOperators
        /\ tokStart + 1 = SkipSpaces(RefTerm.next)

\* 7/2*2 and the like: two operators, where grouping to the right differs
C9_Witness ==
    /\ status = "done"
    /\ RefTerm.ok /\ SuffixStops
    /\ text = <<"7", "/", "2", "*", "2">>
    /\ ret.n = 7 /\ ret.d = 1

\* C10: the cursor stays within the text and current_char is the character
\* under it; pos never decreases; a call that returns a token other than EOF
\* has moved the cursor; once EOF was returned every later call returns EOF
\* and leaves the cursor; every call of get_next_token returns or raises, and
\* evaluate returns or raises.
C10_ScannerProgress ==
    /\ [](/\ 0 <= pos /\ pos <= Len(text)
          /\ current_char = IF pos = Len(text) THEN None ELSE text[pos + 1])
    /\ [][/\ pos' >= pos
          /\ (lpc # "idle" /\ lpc' = "idle" /\ Returned'.type # "EOF") => pos' > callPos
          /\ (mode = "scan" /\ client_tok.type = "EOF") =>
                /\ pos' = pos /\ status' = "running"
                /\ client_tok'.type = "EOF"]_vars
    /\ (lpc # "idle") ~> (lpc = "idle" \/ status = "error")
    /\ <>(mode = "scan" \/ Finished)

\* a direct caller got EOF twice, after a token that was not EOF
C10_Witness ==
    /\ mode = "scan"
    /\ lpc = "gnt"
    /\ client_tok.type = "EOF"
    /\ pos > 0
    /\ callPos = Len(text)

=============================================================================
